---- MODULE Spec2Model ----
(***************************************************************************)
(* Model of make_node_reference.py: run() walks the registry of node       *)
(* categories and, for each node, generate_node_documentation() splits the *)
(* node type's docstring on "@" and appends blocks to the global Document. *)
(* Python strings are sequences of one-character strings, so that split,   *)
(* startswith, rstrip, lower and replace are computed, not assumed.        *)
(***************************************************************************)
EXTENDS Integers, Sequences, FiniteSets, TLC

\* ------------------------------------------------------------------ bounds
\* largest number of "@" fragments after the description in a docstring (SpecDoc)
MaxTags == 2
\* number of node items in the registry (Spec)
MaxNodes == 2

\* ------------------------------------------------- python str operations
None == <<"None">>

Whitespace == {" ", "\n", "\t", "\r", "\f"}

\* code points of the characters that occur in labels (str comparison)
Ord(c) ==
    CASE c = " " -> 32
      [] c = "B" -> 66
      [] c = "a" -> 97
      [] c = "b" -> 98
      [] OTHER -> 0

\* str.lower() on one character
LowerChar(c) ==
    CASE c = "A" -> "a"
      [] c = "B" -> "b"
      [] c = "D" -> "d"
      [] c = "L" -> "l"
      [] c = "M" -> "m"
      [] c = "N" -> "n"
      [] OTHER -> c

\* str.upper() on one character
UpperChar(c) ==
    CASE c = "a" -> "A"
      [] c = "b" -> "B"
      [] c = "d" -> "D"
      [] c = "l" -> "L"
      [] c = "m" -> "M"
      [] c = "n" -> "N"
      [] OTHER -> c

Lower(s) == [i \in 1..Len(s) |-> LowerChar(s[i])]

\* str.capitalize(): first character upper-cased, the rest lower-cased
Capitalize(s) == [i \in 1..Len(s) |-> IF i = 1 THEN UpperChar(s[i]) ELSE LowerChar(s[i])]

\* str.replace(old, new) for a one-character old
Replace(s, old, new) ==
    LET RECURSIVE R(_)
        R(i) == IF i > Len(s) THEN <<>>
                ELSE (IF s[i] = old THEN new ELSE <<s[i]>>) \o R(i + 1)
    IN R(1)

StartsWith(s, prefix) ==
    /\ Len(s) >= Len(prefix)
    /\ SubSeq(s, 1, Len(prefix)) = prefix

EndsWith(s, suffix) ==
    /\ Len(s) >= Len(suffix)
    /\ SubSeq(s, Len(s) - Len(suffix) + 1, Len(s)) = suffix

\* part[n:]
From(s, n) == SubSeq(s, n + 1, Len(s))

\* str.rstrip(chars)
RStrip(s, chars) ==
    LET RECURSIVE R(_)
        R(n) == IF n > 0 /\ s[n] \in chars THEN R(n - 1) ELSE SubSeq(s, 1, n)
    IN R(Len(s))

\* str.split(sep) for a one-character sep: every occurrence separates
Split(s, sep) ==
    LET RECURSIVE R(_, _)
        R(i, cur) == IF i > Len(s) THEN <<cur>>
                     ELSE IF s[i] = sep THEN <<cur>> \o R(i + 1, <<>>)
                     ELSE R(i + 1, Append(cur, s[i]))
    IN R(1, <<>>)

\* str.split(sep, 1): at most one split, at the first occurrence
Split1(s, sep) ==
    LET RECURSIVE R(_)
        R(i) == IF i > Len(s) THEN <<s>>
                ELSE IF s[i] = sep THEN <<SubSeq(s, 1, i - 1), SubSeq(s, i + 1, Len(s))>>
                ELSE R(i + 1)
    IN R(1)

\* str.split(): runs of whitespace separate, empty words are dropped
SplitWS(s) ==
    LET RECURSIVE R(_, _)
        R(i, cur) == IF i > Len(s) THEN (IF cur = <<>> THEN <<>> ELSE <<cur>>)
                     ELSE IF s[i] \in Whitespace
                          THEN (IF cur = <<>> THEN <<>> ELSE <<cur>>) \o R(i + 1, <<>>)
                     ELSE R(i + 1, Append(cur, s[i]))
    IN R(1, <<>>)

\* sep.join(parts)
Join(parts, sep) ==
    LET RECURSIVE R(_)
        R(i) == IF i > Len(parts) THEN <<>>
                ELSE IF i = Len(parts) THEN parts[i]
                ELSE parts[i] \o sep \o R(i + 1)
    IN R(1)

\* " ".join(s.split()).replace("\n", "")
Normalize(s) == Replace(Join(SplitWS(s), <<" ">>), "\n", <<>>)

\* lexicographic comparison of two str by code point: a <= b
RECURSIVE StrLeq(_, _)
StrLeq(a, b) ==
    IF a = <<>> THEN TRUE
    ELSE IF b = <<>> THEN FALSE
    ELSE IF Ord(a[1]) < Ord(b[1]) THEN TRUE
    ELSE IF Ord(a[1]) > Ord(b[1]) THEN FALSE
    ELSE StrLeq(Tail(a), Tail(b))

\* ------------------------------------------------------ program constants
PY_NODE_DIR == "https://github.com/armory3d/armory/blob/master/blender/arm/logicnode/"
HX_NODE_DIR == "https://github.com/armory3d/armory/blob/master/Sources/armory/logicnode/"
IMG_DIR == "https://github.com/armory3d/armory_wiki_images/raw/master/logic_nodes/"

\* ------------------------------------------------- markdownmaker values
\* An inline span.  An f-string is the sequence of its spans.
Span(seg, str, chars, base, path, addr) ==
    [seg |-> seg, str |-> str, chars |-> chars, base |-> base, path |-> path, addr |-> addr]

Str(s) == Span("str", s, <<>>, "", <<>>, 0)
Chars(c) == Span("chars", "", c, "", <<>>, 0)
Bold(s) == Span("Bold", s, <<>>, "", <<>>, 0)
InlineCode(c) == Span("InlineCode", "", c, "", <<>>, 0)
ItalicText(c) == Span("Italic", "", c, "", <<>>, 0)
\* Link(label, url) with a str label and a url made of a fixed base and a path
Link(labelStr, labelChars, base, path) == Span("Link", labelStr, labelChars, base, path, 0)
\* Italic(Link(...))
ItalicLink(l) == [l EXCEPT !.seg = "ItalicLink"]
\* an UnorderedList nested as an item of another list
SubList(addr) == Span("UnorderedList", "", <<>>, "", <<>>, addr)

\* A block of the Document.
Block(type, level, content, inline, list) ==
    [type |-> type, level |-> level, content |-> content, inline |-> inline, list |-> list]

Header(inline, level) == Block("Header", level, "", inline, 0)
Paragraph(inline) == Block("Paragraph", 0, "", inline, 0)
UnorderedList(addr) == Block("UnorderedList", 0, "", <<>>, addr)
Image(url_path, alt_text) ==
    Block("Image", 0, "", <<Span("Image", "", alt_text, IMG_DIR, url_path, 0)>>, 0)
HorizontalRule == Block("HorizontalRule", 0, "", <<>>, 0)
\* Optional(): a block whose content is filled in later, or never
Optional == Block("Optional", 0, "None", <<>>, 0)
\* Optional.content = Quote(inline)
Quote(inline) == Block("Optional", 0, "Quote", inline, 0)

\* ------------------------------------------------------- link resolution
\* get_anchor(text)
get_anchor(text) == <<"#">> \o Replace(Lower(text), " ", <<"-">>)

\* make_node_link(nodename)
make_node_link(nodename) == Link("", nodename, "", get_anchor(nodename))

\* ------------------------------------------------------------- registry
\* the tag prefixes tested by startswith
SEENODE == <<"s", "e", "e", "N", "o", "d", "e", " ">>
SEE == <<"s", "e", "e", " ">>
INPUT == <<"i", "n", "p", "u", "t", " ">>
OUTPUT == <<"o", "u", "t", "p", "u", "t", " ">>
OPTION == <<"o", "p", "t", "i", "o", "n", " ">>
DEPRECATED == <<"d", "e", "p", "r", "e", "c", "a", "t", "e", "d", " ">>

\* docstring fragments: the text before the first "@" ...
DescFragments ==
    { <<>>,
      <<"d", " ", " ", "e", "\n", " ">>,
      <<" ", "\n">>,
      <<"s", "e", "e", " ", "y", "\n">> }

\* ... and the fragments that follow an "@"
TagFragments ==
    { <<"s", "e", "e", "N", "o", "d", "e", " ", "A", " ", "b", "\n">>,
      <<"s", "e", "e", " ", "x", " ">>,
      <<"i", "n", "p", "u", "t", " ", "a", ":", "b", "\n", " ", "c">>,
      <<"i", "n", "p", "u", "t", " ", "a">>,
      <<"o", "u", "t", "p", "u", "t", " ", "o", ":", "p", ":", "q">>,
      <<"o", "p", "t", "i", "o", "n", " ", "k", ":", "v">>,
      <<"d", "e", "p", "r", "e", "c", "a", "t", "e", "d", " ", ":", "m">>,
      <<"d", "e", "p", "r", "e", "c", "a", "t", "e", "d", " ", "a", ",", "b", ":", "m", ".">>,
      <<"d", "e", "p", "r", "e", "c", "a", "t", "e", "d", " ", ",", "a", ",", ":", " ">>,
      <<"x", " ", "y">> }

\* the docstring made of a description and a sequence of tag fragments
MakeDoc(desc, tags) ==
    LET RECURSIVE R(_)
        R(i) == IF i > Len(tags) THEN <<>> ELSE <<"@">> \o tags[i] \o R(i + 1)
    IN desc \o R(1)

RECURSIVE SeqsUpTo(_, _)
SeqsUpTo(S, n) ==
    IF n = 0 THEN {<<>>}
    ELSE LET shorter == SeqsUpTo(S, n - 1)
         IN shorter \cup {Append(q, x) : q \in shorter, x \in S}

Docstrings ==
    {None} \cup {MakeDoc(d, t) : d \in DescFragments, t \in SeqsUpTo(TagFragments, MaxTags)}

\* the docstrings of the node types in a whole run
RunDocstrings ==
    { None,
      MakeDoc(<<"d", " ", " ", "e", "\n", " ">>, <<<<"i", "n", "p", "u", "t", " ", "a", ":", "b", "\n", " ", "c">>>>),
      MakeDoc(<<>>, <<<<"i", "n", "p", "u", "t", " ", "a">>>>) }

Labels == { <<"b">>, <<"B", " ", "a">> }

SectionNames == <<<<"d", "e", "f", "a", "u", "l", "t">>, <<"l", "o", "g", "i", "c">>, <<"m", "o", "t", "i", "o", "n">>>>
CategoryNames == <<<<"M", "a">>, <<"A", " ", "b">>, <<"N">>>>
CategoryDescriptions == <<<<"d">>, <<>>, <<>>>>
\* which section declares which categories: "default" declares none
SectionCategories == <<<<>>, <<1, 2>>, <<3>>>>

TypeChars == <<"a", "b", "c", "d">>
TypeName(n) == <<"L", "N", TypeChars[n]>>

\* a registered node class: __doc__, __module__, bl_idname
NodeType(n, doc) ==
    [doc |-> doc, module |-> <<"a", "r", "m", ".", "l", "o", "g", "i", "c", "n", "o", "d", "e", ".", "m", ".">> \o TypeName(n), bl_idname |-> TypeName(n)]

NodeItem(n, lab) == [nodetype |-> TypeName(n), label |-> lab[n]]

NoNodeItem == [nodetype |-> <<>>, label |-> <<>>]

\* ArmNodeCategory c with the k nodes placed by cat (category) and dep (deprecated)
Category(c, k, cat, dep, lab) ==
    LET active == SelectSeq([n \in 1..k |-> n], LAMBDA n : cat[n] = c /\ ~dep[n])
        deprecated == SelectSeq([n \in 1..k |-> n], LAMBDA n : cat[n] = c /\ dep[n])
    IN [name |-> CategoryNames[c],
        description |-> CategoryDescriptions[c],
        nodes |-> [i \in 1..Len(active) |-> NodeItem(active[i], lab)],
        deprecated_nodes |-> [i \in 1..Len(deprecated) |-> NodeItem(deprecated[i], lab)]]

NoCategory == [name |-> <<>>, description |-> <<>>, nodes |-> <<>>, deprecated_nodes |-> <<>>]

\* arm_nodes.category_items: section -> categories, in declared order
Registry(k, cat, dep, lab) ==
    [s \in 1..Len(SectionNames) |->
        [section |-> SectionNames[s],
         categories |-> [i \in 1..Len(SectionCategories[s]) |->
                            Category(SectionCategories[s][i], k, cat, dep, lab)]]]

\* ---------------------------------------------------------------- state
VARIABLES
    category_items,     \* arm_nodes.category_items
    nodetypes,          \* the registered node classes, by type name
    Document,           \* markdownmaker's global Document: its blocks
    lists,              \* the list objects (shared by reference with the Document)
    pc,                 \* position in run() / generate_node_documentation()
    categories,         \* the iterator over get_all_categories()
    category,           \* loop variable of run()
    nodes,              \* the iterator over the sorted node items
    nodeitem,           \* loop variable of run()
    doc_parts, part_i,  \* doc.split("@") and the position of `part` in it
    has_see, has_inputs, has_outputs, has_options,
    see_list, input_list, output_list, option_list,
    deprecation_note,   \* the Optional block, as its position in the Document
    out_file            \* reference.md

vars == <<category_items, nodetypes, Document, lists, pc, categories, category, nodes,
          nodeitem, doc_parts, part_i, has_see, has_inputs, has_outputs, has_options,
          see_list, input_list, output_list, option_list, deprecation_note, out_file>>

registry == <<category_items, nodetypes>>
locals == <<doc_parts, part_i, has_see, has_inputs, has_outputs, has_options,
            see_list, input_list, output_list, option_list, deprecation_note>>

\* the state at the entry of run(): the registry as given, nothing generated yet
InitWith(k, cat, dep, lab, doc) ==
    /\ category_items = Registry(k, cat, dep, lab)
    /\ nodetypes = [t \in {TypeName(n) : n \in 1..k} |->
                      LET n == CHOOSE m \in 1..k : TypeName(m) = t
                      IN NodeType(n, doc[n])]
    /\ Document = <<>>
    /\ lists = <<>>
    /\ pc = "intro"
    /\ categories = <<>>
    /\ category = NoCategory
    /\ nodes = <<>>
    /\ nodeitem = NoNodeItem
    /\ doc_parts = <<>>
    /\ part_i = 0
    /\ has_see = FALSE /\ has_inputs = FALSE /\ has_outputs = FALSE /\ has_options = FALSE
    /\ see_list = 0 /\ input_list = 0 /\ output_list = 0 /\ option_list = 0
    /\ deprecation_note = 0
    /\ out_file = "absent"

\* a whole registry: MaxNodes nodes placed in the categories of section "logic" (the
\* category of section "motion" has no node), few docstrings
Init ==
    \E cat \in [1..MaxNodes -> {1, 2}], dep \in [1..MaxNodes -> BOOLEAN],
       lab \in [1..MaxNodes -> Labels], doc \in [1..MaxNodes -> RunDocstrings] :
       InitWith(MaxNodes, cat, dep, lab, doc)

\* one node in the first category, every docstring
InitDoc ==
    \E doc \in Docstrings :
       InitWith(1, <<1>>, <<FALSE>>, <<<<"B", " ", "a">>>>, <<doc>>)

\* ------------------------------------------------------------------ run()
\* arm_nodes.get_all_categories(): the categories of all sections, in declared order
get_all_categories ==
    LET RECURSIVE R(_)
        R(s) == IF s > Len(category_items) THEN <<>>
                ELSE category_items[s].categories \o R(s + 1)
    IN R(1)

\* the title, the two boilerplate paragraphs, the rule, the "Node Categories" header
Intro ==
    /\ pc = "intro"
    /\ Document' = Document \o
          << Header(<<Str("Logic Nodes Reference")>>, 1),
             Paragraph(<<Span("Italic", "This document was generated automatically.", <<>>, "", <<>>, 0)>>),
             Paragraph(<<Span("Italic", "This reference was built for Armory.", <<>>, "", <<>>, 0)>>),
             HorizontalRule,
             Header(<<Str("Node Categories")>>, 2) >>
    /\ pc' = "listing"
    /\ UNCHANGED <<registry, lists, categories, category, nodes, nodeitem, locals, out_file>>

\* whether a section is put into the listing
SectionListed(section_categories) == Len(section_categories) > 0

\* mutant: only the categories that have a node get a link
CategoryLinks_NonEmpty(section_categories) ==
    LET kept == SelectSeq(section_categories,
                          LAMBDA c : Len(c.nodes) + Len(c.deprecated_nodes) > 0)
    IN [i \in 1..Len(kept) |-> <<Link("", kept[i].name, "", get_anchor(kept[i].name))>>]

\* the links of the categories of one section
CategoryLinks(section_categories) ==
    [i \in 1..Len(section_categories) |->
        <<Link("", section_categories[i].name, "", get_anchor(section_categories[i].name))>>]

\* the loop over category_items.items(): the list category_items and the list objects made
RECURSIVE ListSections(_, _, _)
ListSections(s, items, heap) ==
    IF s > Len(category_items) THEN [items |-> items, heap |-> heap]
    ELSE IF SectionListed(category_items[s].categories)
    THEN ListSections(s + 1,
            items \o << <<Span("Bold", "", Capitalize(category_items[s].section), "", <<>>, 0)>>,
                        <<SubList(Len(heap) + 1)>> >>,
            Append(heap, CategoryLinks(category_items[s].categories)))
    ELSE ListSections(s + 1, items, heap)

\* where run() goes when a category has no node left
AfterCategory(cats) == IF cats # <<>> THEN "category" ELSE "write"

ListCategories ==
    /\ pc = "listing"
    /\ LET r == ListSections(1, <<>>, lists)
       IN /\ lists' = Append(r.heap, r.items)
          /\ Document' = Append(Document, UnorderedList(Len(r.heap) + 1))
    /\ categories' = get_all_categories
    /\ pc' = AfterCategory(get_all_categories)
    /\ UNCHANGED <<registry, category, nodes, nodeitem, locals, out_file>>

\* sorted(iterator, key=lambda n: n.label): a stable insertion by label
RECURSIVE Insert(_, _)
Insert(x, sorted) ==
    IF sorted = <<>> THEN <<x>>
    ELSE IF StrLeq(Head(sorted).label, x.label) THEN <<Head(sorted)>> \o Insert(x, Tail(sorted))
    ELSE <<x>> \o sorted

SortedByLabel(items) ==
    LET RECURSIVE R(_, _)
        R(i, acc) == IF i > Len(items) THEN acc ELSE R(i + 1, Insert(items[i], acc))
    IN R(1, <<>>)

\* itertools.chain(category.get_all_nodes(), category.deprecated_nodes)
ChainNodes(c) == c.nodes \o c.deprecated_nodes

CategoryHeader ==
    /\ pc = "category"
    /\ LET c == Head(categories)
           sorted == SortedByLabel(ChainNodes(c))
       IN /\ category' = c
          /\ categories' = Tail(categories)
          /\ Document' = Document \o <<Header(<<Chars(c.name)>>, 2)>> \o
                (IF c.description # <<>> THEN <<Paragraph(<<Chars(c.description)>>)>> ELSE <<>>)
          /\ nodes' = sorted
          /\ pc' = IF sorted # <<>> THEN "node" ELSE AfterCategory(Tail(categories))
    /\ UNCHANGED <<registry, lists, nodeitem, locals, out_file>>

NodeHeader ==
    /\ pc = "node"
    /\ nodeitem' = Head(nodes)
    /\ nodes' = Tail(nodes)
    /\ Document' = Append(Document, Header(<<Chars(Head(nodes).label)>>, 3))
    /\ pc' = "generate"
    /\ UNCHANGED <<registry, lists, categories, category, locals, out_file>>

\* where run() goes when generate_node_documentation returns
AfterNode == IF nodes # <<>> THEN "node" ELSE AfterCategory(categories)

WriteFile ==
    /\ pc = "write"
    /\ out_file' = "written"
    /\ pc' = "done"
    /\ UNCHANGED <<registry, Document, lists, categories, category, nodes, nodeitem, locals>>

\* ------------------------------------------ generate_node_documentation()
\* get_nodetype(typename)
get_nodetype(typename) == nodetypes[typename]

\* doc_parts[0].rstrip("\n"), then " ".join(...split()).replace("\n", "")
NodeDescription(part0) == Normalize(RStrip(part0, {"\n"}))

\* mutant: the description is added before the Optional of the notice
DescriptionBlocks_Swapped(node_description) ==
    <<Paragraph(<<Chars(node_description)>>), Optional>>

\* the blocks added before the loops: the Optional of the notice, the description
DescriptionBlocks(node_description) == <<Optional, Paragraph(<<Chars(node_description)>>)>>

\* the docstring is read; a node without one gets nothing more than its header
GenerateStart ==
    /\ pc = "generate"
    /\ LET doc == get_nodetype(nodeitem.nodetype).doc
       IN IF doc = None
          THEN /\ pc' = AfterNode
               /\ UNCHANGED <<Document, lists, locals>>
          ELSE /\ doc_parts' = Split(doc, "@")
               /\ deprecation_note' = Len(Document) + 1
               /\ Document' = Document \o DescriptionBlocks(NodeDescription(Split(doc, "@")[1]))
               /\ has_see' = FALSE /\ has_inputs' = FALSE
               /\ has_outputs' = FALSE /\ has_options' = FALSE
               /\ lists' = lists \o <<<<>>, <<>>, <<>>, <<>>>>
               /\ see_list' = Len(lists) + 1
               /\ input_list' = Len(lists) + 2
               /\ output_list' = Len(lists) + 3
               /\ option_list' = Len(lists) + 4
               /\ part_i' = 1
               /\ pc' = "see_loop"
    /\ UNCHANGED <<registry, categories, category, nodes, nodeitem, out_file>>

\* the branch of the first loop that a part takes
SeeKind(part) ==
    IF StartsWith(part, SEENODE) THEN "seeNode"
    ELSE IF StartsWith(part, SEE) THEN "see"
    ELSE "none"

\* the item appended to see_list
SeeItem(part) ==
    IF SeeKind(part) = "seeNode"
    THEN <<ItalicLink(make_node_link(RStrip(From(part, 8), Whitespace)))>>
    ELSE <<ItalicText(RStrip(From(part, 4), Whitespace))>>

\* a section's header and its (shared) list
SectionBlocks(title, list) == <<Paragraph(<<Bold(title)>>), UnorderedList(list)>>

\* one iteration of the first `for part in doc_parts`
SeeStep ==
    /\ pc = "see_loop"
    /\ LET part == doc_parts[part_i]
           kind == SeeKind(part)
       IN /\ Document' = IF kind # "none" /\ ~has_see
                         THEN Document \o SectionBlocks("See also:", see_list)
                         ELSE Document
          /\ has_see' = (has_see \/ kind # "none")
          /\ lists' = IF kind # "none"
                      THEN [lists EXCEPT ![see_list] = Append(@, SeeItem(part))]
                      ELSE lists
    /\ IF part_i < Len(doc_parts)
       THEN part_i' = part_i + 1 /\ pc' = "see_loop"
       ELSE part_i' = part_i /\ pc' = "image"
    /\ UNCHANGED <<registry, categories, category, nodes, nodeitem, out_file, doc_parts,
                   has_inputs, has_outputs, has_options,
                   see_list, input_list, output_list, option_list, deprecation_note>>

\* the node screenshot
AddImage ==
    /\ pc = "image"
    /\ Document' = Append(Document,
          Image(Lower(category.name) \o <<"/">> \o nodeitem.nodetype \o <<".", "j", "p", "g">>,
                nodeitem.label \o <<" ", "n", "o", "d", "e">>))
    /\ part_i' = 1
    /\ pc' = "tag_loop"
    /\ UNCHANGED <<registry, lists, categories, category, nodes, nodeitem, out_file, doc_parts,
                   has_see, has_inputs, has_outputs, has_options,
                   see_list, input_list, output_list, option_list, deprecation_note>>

\* the branch of the second loop that a part takes
TagKind(part) ==
    IF StartsWith(part, INPUT) THEN "input"
    ELSE IF StartsWith(part, OUTPUT) THEN "output"
    ELSE IF StartsWith(part, OPTION) THEN "option"
    ELSE IF StartsWith(part, DEPRECATED) THEN "deprecated"
    ELSE "none"

\* the slice of the part that is split on ":"
Payload(part) ==
    CASE TagKind(part) = "input" -> From(part, 6)
      [] TagKind(part) = "output" -> From(part, 7)
      [] TagKind(part) = "option" -> From(part, 7)
      [] TagKind(part) = "deprecated" -> From(part, 11)
      [] OTHER -> <<>>

\* name, description = payload.split(":", 1) raises ValueError unless it yields two
Unpacks(part) == Len(Split1(Payload(part), ":")) = 2

\* f"{InlineCode(socket_name)}: {description}"
SocketItem(part) ==
    LET sp == Split1(Payload(part), ":")
    IN <<InlineCode(sp[1]), Str(": "), Chars(Normalize(sp[2]))>>

\* message normalised, with a final "." unless empty or already there
DeprecationMessage(message) ==
    LET m == Normalize(message)
    IN IF ~EndsWith(m, <<".">>) /\ ~(m = <<>>) THEN m \o <<".">> ELSE m

\* mutant: an empty entry of the alternatives is linked like any other
DeprecationLinks_KeepEmpty(alternatives) ==
    LET alts == Split(alternatives, ",")
    IN [i \in 1..Len(alts) |-> make_node_link(alts[i])]

\* the links of the alternatives, empty entries skipped
DeprecationLinks(alternatives) ==
    LET alts == SelectSeq(Split(alternatives, ","), LAMBDA a : a # <<>>)
    IN [i \in 1..Len(alts) |-> make_node_link(alts[i])]

\* ', '.join(links)
JoinLinks(links) ==
    LET RECURSIVE R(_)
        R(i) == IF i > Len(links) THEN <<>>
                ELSE IF i = Len(links) THEN <<links[i]>>
                ELSE <<links[i], Str(", ")>> \o R(i + 1)
    IN R(1)

\* whether the "Please use ..." sentence is put before the message
HasAlternatives(links) == Len(links) > 0

\* the Quote set as the content of deprecation_note
DeprecationQuote(part) ==
    LET sp == Split1(Payload(part), ":")
        message == <<Chars(DeprecationMessage(sp[2]))>>
        links == DeprecationLinks(sp[1])
    IN Quote(<<Bold("DEPRECATED."),
               Str(" This node is deprecated and will be removed in future versions of Armory. ")>>
             \o (IF HasAlternatives(links)
                 THEN <<Str("Please use the following node(s) instead: ")>> \o JoinLinks(links)
                      \o <<Str("."), Str(" ")>> \o message
                 ELSE message))

\* mutant: the input and the output branch add each other's header
SectionTitle_Swapped(kind) ==
    CASE kind = "input" -> "Outputs:"
      [] kind = "output" -> "Inputs:"
      [] OTHER -> "Options:"

\* the header that each socket branch adds on its first part
SectionTitle(kind) ==
    CASE kind = "input" -> "Inputs:"
      [] kind = "output" -> "Outputs:"
      [] OTHER -> "Options:"

\* one iteration of the second `for part in doc_parts`; a ValueError ends the run
TagStep ==
    /\ pc = "tag_loop"
    /\ LET part == doc_parts[part_i]
           kind == TagKind(part)
           socket == kind \in {"input", "output", "option"}
           first == \/ kind = "input" /\ ~has_inputs
                    \/ kind = "output" /\ ~has_outputs
                    \/ kind = "option" /\ ~has_options
           title == SectionTitle(kind)
           list == CASE kind = "input" -> input_list
                     [] kind = "output" -> output_list
                     [] OTHER -> option_list
           raises == kind # "none" /\ ~Unpacks(part)
           withHeader == IF first THEN Document \o SectionBlocks(title, list) ELSE Document
       IN /\ has_inputs' = (has_inputs \/ kind = "input")
          /\ has_outputs' = (has_outputs \/ kind = "output")
          /\ has_options' = (has_options \/ kind = "option")
          /\ lists' = IF socket /\ ~raises
                      THEN [lists EXCEPT ![list] = Append(@, SocketItem(part))]
                      ELSE lists
          /\ Document' = IF kind = "deprecated" /\ ~raises
                         THEN [withHeader EXCEPT ![deprecation_note] = DeprecationQuote(part)]
                         ELSE withHeader
          /\ IF raises THEN part_i' = part_i /\ pc' = "aborted"
             ELSE IF part_i < Len(doc_parts) THEN part_i' = part_i + 1 /\ pc' = "tag_loop"
             ELSE part_i' = part_i /\ pc' = "sources"
    /\ UNCHANGED <<registry, categories, category, nodes, nodeitem, out_file, doc_parts,
                   has_see, see_list, input_list, output_list, option_list, deprecation_note>>

\* the links to the Python and Haxe sources
SourcesBlock(nodetype) ==
    LET node_file_py == Join(From(Split(nodetype.module, "."), 2), <<"/">>) \o <<".", "p", "y">>
        node_file_hx == From(nodetype.bl_idname, 2) \o <<".", "h", "x">>
    IN Paragraph(<<Bold("Sources:"), Str(" "), Link("Python", <<>>, PY_NODE_DIR, node_file_py),
                   Str(" | "), Link("Haxe", <<>>, HX_NODE_DIR, node_file_hx)>>)

AddSources ==
    /\ pc = "sources"
    /\ Document' = Append(Document, SourcesBlock(get_nodetype(nodeitem.nodetype)))
    /\ pc' = AfterNode
    /\ UNCHANGED <<registry, lists, categories, category, nodes, nodeitem, locals, out_file>>

\* ---------------------------------------------------------- specification
Next ==
    \/ Intro
    \/ ListCategories
    \/ CategoryHeader
    \/ NodeHeader
    \/ GenerateStart
    \/ SeeStep
    \/ AddImage
    \/ TagStep
    \/ AddSources
    \/ WriteFile

Spec == Init /\ [][Next]_vars

SpecDoc == InitDoc /\ [][Next]_vars

\* ------------------------------------------------- reading the Document
\* the position of the header of the node generated last, 0 before the first
NodeStart ==
    LET at == {i \in 1..Len(Document) : Document[i].type = "Header" /\ Document[i].level = 3}
    IN IF at = {} THEN 0 ELSE CHOOSE i \in at : \A j \in at : j <= i

\* the blocks appended after that header, up to the next header
NodeBlocks ==
    LET later == {i \in (NodeStart + 1)..Len(Document) : Document[i].type = "Header"}
        last == IF later = {} THEN Len(Document)
                ELSE (CHOOSE i \in later : \A j \in later : i <= j) - 1
    IN SubSeq(Document, NodeStart + 1, last)

\* what a block of a node is
BlockKind(b) ==
    IF b.type = "Optional" THEN "notice"
    ELSE IF b.type = "Image" THEN "image"
    ELSE IF b.type = "UnorderedList" THEN "list"
    ELSE IF b.type = "Paragraph" /\ Len(b.inline) = 1 /\ b.inline[1].seg = "chars" THEN "description"
    ELSE IF b.type = "Paragraph" /\ Len(b.inline) = 1 /\ b.inline[1].seg = "Bold" THEN b.inline[1].str
    ELSE IF b.type = "Paragraph" /\ Len(b.inline) > 1 /\ b.inline[1].str = "Sources:" THEN "sources"
    ELSE "other"

SectionTitles == {"See also:", "Inputs:", "Outputs:", "Options:"}
SocketTitles == {"Inputs:", "Outputs:", "Options:"}

\* the positions, among the blocks of the node, of the blocks of one kind
Positions(kind) ==
    LET blocks == NodeBlocks
    IN {i \in 1..Len(blocks) : BlockKind(blocks[i]) = kind}

\* the position of the first block of a kind (0: none)
FirstPos(kind) ==
    LET at == Positions(kind)
    IN IF at = {} THEN 0 ELSE CHOOSE i \in at : \A j \in at : i <= j

\* the docstring of the node generated last
CurrentDoc == get_nodetype(nodeitem.nodetype).doc

\* generate_node_documentation has been entered for a node ...
Started == NodeStart > 0 /\ pc # "generate"
\* ... and has returned
Returned == Started /\ pc \in {"node", "category", "write", "done"}
\* ... or was left by the ValueError
Aborted == pc = "aborted"

\* the section that a fragment of the docstring belongs to ("": none)
TitleOf(part) ==
    IF StartsWith(part, SEENODE) \/ StartsWith(part, SEE) THEN "See also:"
    ELSE IF StartsWith(part, INPUT) THEN "Inputs:"
    ELSE IF StartsWith(part, OUTPUT) THEN "Outputs:"
    ELSE IF StartsWith(part, OPTION) THEN "Options:"
    ELSE ""

\* the fragments of a section among the fragments from..Len of the docstring
FragmentsOf(title, from) ==
    {i \in from..Len(doc_parts) : TitleOf(doc_parts[i]) = title}

FirstFragment(title, from) ==
    LET at == FragmentsOf(title, from)
    IN IF at = {} THEN 0 ELSE CHOOSE i \in at : \A j \in at : i <= j

\* the order of the kinds of blocks as the code lays them out: See also before the image
Rank(i) ==
    LET blocks == NodeBlocks
        RECURSIVE R(_)
        R(j) == LET k == BlockKind(blocks[j])
                IN CASE k = "notice" -> 1
                     [] k = "description" -> 2
                     [] k = "See also:" -> 3
                     [] k = "image" -> 4
                     [] k \in SocketTitles -> 5
                     [] k = "sources" -> 6
                     [] k = "list" -> (IF j = 1 THEN 0 ELSE R(j - 1))
                     [] OTHER -> 0
    IN R(i)

\* every section header is directly followed by its list
HeaderListPairs ==
    LET blocks == NodeBlocks
    IN \A i \in 1..Len(blocks) :
          /\ BlockKind(blocks[i]) \in SectionTitles =>
                i < Len(blocks) /\ BlockKind(blocks[i + 1]) = "list"
          /\ BlockKind(blocks[i]) = "list" =>
                i > 1 /\ BlockKind(blocks[i - 1]) \in SectionTitles

\* ----------------------------------------------------------------- claims
\* C1 as stated: for a node with a docstring, once generation has returned, the blocks are
\* the notice, the description, exactly one image, then every section header/list pair,
\* then exactly one sources paragraph as the last block; the image precedes "See also:".
\* (Stated for the docstrings whose description is not itself read as a tag.)
C1_ImageBeforeAllSections ==
    (Returned /\ CurrentDoc # None /\ TitleOf(doc_parts[1]) = "") =>
        /\ Cardinality(Positions("image")) = 1
        /\ Cardinality(Positions("sources")) = 1
        /\ FirstPos("sources") = Len(NodeBlocks)
        /\ \A t \in SectionTitles :
              \A i \in Positions(t) : FirstPos("image") < i /\ i < FirstPos("sources")
        /\ \A i \in Positions("notice") \cup Positions("description") : i < FirstPos("image")

\* C1 amended: for a node with a docstring the blocks appear, at every moment, in the
\* order notice slot, description, "See also:" pair, image, Inputs/Outputs/Options pairs,
\* sources; the "See also:" header precedes the image; there is one notice slot and one
\* description; once generation has returned there is exactly one image and exactly one
\* sources paragraph, the last block; when a ValueError has ended it there is exactly one
\* image and no sources paragraph.
C1_SeeAlsoBeforeImage ==
    (Started /\ CurrentDoc # None) =>
        /\ \A i \in 1..Len(NodeBlocks) : Rank(i) > 0
        /\ \A i \in 1..(Len(NodeBlocks) - 1) : Rank(i) <= Rank(i + 1)
        /\ HeaderListPairs
        /\ Positions("notice") = {1}
        /\ Positions("description") = {2}
        /\ Cardinality(Positions("image")) <= 1
        /\ Cardinality(Positions("sources")) <= 1
        /\ \A i \in Positions("See also:") : \A j \in Positions("image") : i < j
        /\ Returned => /\ Cardinality(Positions("image")) = 1
                       /\ Positions("sources") = {Len(NodeBlocks)}
        /\ Aborted => /\ Cardinality(Positions("image")) = 1
                      /\ Positions("sources") = {}

\* C1 witness: generation has returned for a docstring with a see and an input fragment:
\* See also, then the image, then Inputs, then the sources
C1_Witness ==
    /\ Returned /\ CurrentDoc # None
    /\ FirstPos("See also:") > 0
    /\ FirstPos("See also:") < FirstPos("image")
    /\ FirstPos("image") < FirstPos("Inputs:")
    /\ FirstPos("Inputs:") < FirstPos("sources")

\* C2 as stated: for two kinds of section that both have a tag (a fragment after an "@"),
\* the header of the kind whose first tag comes first in the text comes first in the output.
\* (Stated for the docstrings whose description is not itself read as a tag.)
C2_HeadersInTextOrder ==
    (Returned /\ CurrentDoc # None /\ TitleOf(doc_parts[1]) = "") =>
        \A t1, t2 \in SectionTitles :
            (/\ FirstFragment(t1, 2) > 0
             /\ FirstFragment(t2, 2) > 0
             /\ FirstFragment(t1, 2) < FirstFragment(t2, 2))
            => (FirstPos(t1) > 0 /\ FirstPos(t2) > 0 /\ FirstPos(t1) < FirstPos(t2))

\* C2 amended: the "See also:" header precedes the Inputs, Outputs and Options headers
\* whatever the order of the tags; two of the Inputs, Outputs, Options headers that are
\* both in the output are in the order of the first fragment of each kind, a fragment
\* being any piece of doc.split("@"), the description included; and once generation has
\* returned every kind that has a fragment has its header.
C2_SeeFirstThenTextOrder ==
    (Started /\ CurrentDoc # None) =>
        /\ \A t \in SocketTitles :
              (FirstPos("See also:") > 0 /\ FirstPos(t) > 0) => FirstPos("See also:") < FirstPos(t)
        /\ \A t1, t2 \in SocketTitles :
              (FirstPos(t1) > 0 /\ FirstPos(t2) > 0 /\ t1 # t2) =>
                  /\ FirstFragment(t1, 1) > 0
                  /\ FirstFragment(t2, 1) > 0
                  /\ (FirstPos(t1) < FirstPos(t2)) <=> (FirstFragment(t1, 1) < FirstFragment(t2, 1))
        /\ Returned => \A t \in SectionTitles : FirstFragment(t, 1) > 0 => FirstPos(t) > 0

\* C2 witness: an input tag written before a see tag, and "See also:" before "Inputs:"
C2_Witness ==
    /\ Returned /\ CurrentDoc # None
    /\ FirstFragment("Inputs:", 2) > 0
    /\ FirstFragment("Inputs:", 2) < FirstFragment("See also:", 2)
    /\ FirstPos("See also:") > 0
    /\ FirstPos("See also:") < FirstPos("Inputs:")


\* the fragments after the first "@" that belong to a section, in the order of the text
TagsOf(title) ==
    SelectSeq([i \in 1..Len(doc_parts) |-> i],
              LAMBDA i : i >= 2 /\ TitleOf(doc_parts[i]) = title)

\* what a tag names: the text of a see tag, the socket or option name of the others
TagKey(part) ==
    IF StartsWith(part, SEENODE) THEN RStrip(From(part, 8), Whitespace)
    ELSE IF StartsWith(part, SEE) THEN RStrip(From(part, 4), Whitespace)
    ELSE LET payload == IF StartsWith(part, INPUT) THEN From(part, 6) ELSE From(part, 7)
             colons == {i \in 1..Len(payload) : payload[i] = ":"}
         IN IF colons = {} THEN payload
            ELSE SubSeq(payload, 1, (CHOOSE i \in colons : \A j \in colons : i <= j) - 1)

\* the items of the list of a section of the node (none when the section has no header)
ItemsOf(title) ==
    IF FirstPos(title) = 0 \/ FirstPos(title) = Len(NodeBlocks) THEN <<>>
    ELSE lists[NodeBlocks[FirstPos(title) + 1].list]

\* C3 as stated: when generation of a node with a docstring has ended, each section header
\* is there at most once, it is there exactly when the docstring has a tag of that kind,
\* and the section's list has one item per tag of the kind, in the order of the text.
C3_OneHeaderOneItemPerTag ==
    ((Returned \/ Aborted) /\ Started /\ CurrentDoc # None) =>
        \A t \in SectionTitles :
            /\ Cardinality(Positions(t)) <= 1
            /\ (Positions(t) # {}) <=> (TagsOf(t) # <<>>)
            /\ Len(ItemsOf(t)) = Len(TagsOf(t))
            /\ \A k \in 1..Len(TagsOf(t)) :
                  k <= Len(ItemsOf(t)) => ItemsOf(t)[k][1].chars = TagKey(doc_parts[TagsOf(t)[k]])

\* C4 as stated: a node without a docstring has, after its header, its image block and
\* neither a description nor a section.
C4_NoDocstringStillHasImage ==
    (Returned /\ CurrentDoc = None) =>
        /\ Cardinality(Positions("image")) = 1
        /\ Positions("description") = {}
        /\ \A t \in SectionTitles : Positions(t) = {}

\* C5 as stated: an input, output or option tag without a colon does not end the run.
C5_MalformedTagIsSkipped ==
    ~(/\ pc = "aborted"
      /\ TitleOf(doc_parts[part_i]) \in SocketTitles
      /\ \A i \in 1..Len(doc_parts[part_i]) : doc_parts[part_i][i] # ":")

\* C9 as stated: a description paragraph is added exactly when the text before the first
\* "@" has a character that is not whitespace.
C9_NoParagraphForEmptyDescription ==
    (Started /\ CurrentDoc # None) =>
        ((Positions("description") # {})
            <=> (\E i \in 1..Len(doc_parts[1]) : doc_parts[1][i] \notin Whitespace))

\* C10 as stated: the text before the first "@" adds no header and no item and sets no
\* notice: once generation has returned, a section has its header only if a fragment after
\* an "@" is of its kind and has as many items as there are such fragments, and the notice
\* is set only if a fragment after an "@" starts with "deprecated ".
C10_DescriptionIsNeverATag ==
    (Returned /\ CurrentDoc # None) =>
        /\ \A t \in SectionTitles :
              /\ Positions(t) # {} => TagsOf(t) # <<>>
              /\ Len(ItemsOf(t)) = Len(TagsOf(t))
        /\ NodeBlocks[1].content = "Quote" =>
              \E i \in 2..Len(doc_parts) : StartsWith(doc_parts[i], DEPRECATED)


\* the items of the "Node Categories" list, once run() has built it
Listing ==
    LET at == {i \in 2..Len(Document) :
                  /\ Document[i - 1].type = "Header"
                  /\ Document[i - 1].inline[1].str = "Node Categories"
                  /\ Document[i].type = "UnorderedList"}
    IN IF at = {} THEN <<>> ELSE lists[Document[CHOOSE i \in at : TRUE].list]

Listed == pc \notin {"intro", "listing"}

\* the links, in the listing, of the group listed k-th
GroupLinks(k) == lists[Listing[2 * k][1].addr]

\* whether a category name is linked somewhere in the listing
IsLinked(name) ==
    \E k \in 1..(Len(Listing) \div 2) :
        \E i \in 1..Len(GroupLinks(k)) :
            GroupLinks(k)[i][1].chars = name /\ GroupLinks(k)[i][1].path = get_anchor(name)

NodeCount(c) == Len(c.nodes) + Len(c.deprecated_nodes)

\* C6 as stated: a category without any node is not in the listing, a section is listed only
\* if one of its categories has a node, and every category that has a node is linked.
C6_EmptyCategoriesNotListed ==
    Listed =>
        \A s \in 1..Len(category_items) :
            \A i \in 1..Len(category_items[s].categories) :
                LET c == category_items[s].categories[i]
                IN IsLinked(c.name) <=> NodeCount(c) > 0

\* C6 amended: a section is listed exactly when it declares at least one category, in the
\* declared order of the sections, and every category of a listed section, with or without
\* nodes, appears in declared order as a link to get_anchor(category name).
C6_EveryCategoryOfANonEmptySectionListed ==
    Listed =>
        LET declared == SelectSeq(category_items, LAMBDA s : Len(s.categories) > 0)
        IN /\ Len(Listing) = 2 * Len(declared)
           /\ \A k \in 1..Len(declared) :
                 /\ Listing[2 * k - 1][1].seg = "Bold"
                 /\ Lower(Listing[2 * k - 1][1].chars) = Lower(declared[k].section)
                 /\ Listing[2 * k][1].seg = "UnorderedList"
                 /\ Len(GroupLinks(k)) = Len(declared[k].categories)
                 /\ \A i \in 1..Len(declared[k].categories) :
                       /\ GroupLinks(k)[i][1].seg = "Link"
                       /\ GroupLinks(k)[i][1].chars = declared[k].categories[i].name
                       /\ GroupLinks(k)[i][1].path = get_anchor(declared[k].categories[i].name)

\* C6 witness: the listing is built, a category without nodes is linked in it and the
\* section without categories is not in it
C6_Witness ==
    /\ Listed
    /\ \E s \in 1..Len(category_items) :
          \E i \in 1..Len(category_items[s].categories) :
              /\ NodeCount(category_items[s].categories[i]) = 0
              /\ IsLinked(category_items[s].categories[i].name)
    /\ \E s \in 1..Len(category_items) :
          /\ category_items[s].categories = <<>>
          /\ \A k \in 1..(Len(Listing) \div 2) :
                Lower(Listing[2 * k - 1][1].chars) # Lower(category_items[s].section)
    /\ \E s \in 1..Len(category_items) :
          \E i \in 1..Len(category_items[s].categories) :
              NodeCount(category_items[s].categories[i]) > 0


\* how many fragments the second loop has gone through
ProcessedUpTo ==
    CASE pc \in {"see_loop", "image"} -> 0
      [] pc \in {"tag_loop", "aborted"} -> part_i - 1
      [] OTHER -> Len(doc_parts)

\* the last fragment gone through that starts with "deprecated " (0: none)
LastDeprecated ==
    LET at == {i \in 1..ProcessedUpTo : StartsWith(doc_parts[i], DEPRECATED)}
    IN IF at = {} THEN 0 ELSE CHOOSE i \in at : \A j \in at : j <= i

PleaseUse == Str("Please use the following node(s) instead: ")

\* the spans of the notice of the node
NoticeSpans == NodeBlocks[1].inline

NoticeLinks == SelectSeq(NoticeSpans, LAMBDA sp : sp.seg = "Link")

\* C7: once a "deprecated <alts>:<message>" fragment has been gone through, the notice
\* is set from it: the payload is split at its first colon; the non-empty comma-separated
\* entries of <alts> are linked, one link each, in their order; the "Please use ..." sentence
\* is there exactly when there is such an entry, and then it and the links come before the
\* message; the message is the normalised <message>, with a "." appended exactly when it is
\* not empty and does not end with one.
C7_DeprecationNotice ==
    (Started /\ CurrentDoc # None /\ LastDeprecated > 0) =>
        LET payload == From(doc_parts[LastDeprecated], 11)
            colon == CHOOSE i \in 1..Len(payload) :
                        payload[i] = ":" /\ \A j \in 1..(i - 1) : payload[j] # ":"
            alts == SubSeq(payload, 1, colon - 1)
            raw == SubSeq(payload, colon + 1, Len(payload))
            entries == SelectSeq(Split(alts, ","), LAMBDA a : Len(a) > 0)
            text == Normalize(raw)
            last == Len(NoticeSpans)
            please == {i \in 1..last : NoticeSpans[i] = PleaseUse}
        IN /\ NodeBlocks[1].content = "Quote"
           /\ Len(NoticeLinks) = Len(entries)
           /\ \A i \in 1..Len(entries) :
                 /\ NoticeLinks[i].chars = entries[i]
                 /\ NoticeLinks[i].path = get_anchor(entries[i])
           /\ (please # {}) <=> (Len(entries) >= 1)
           /\ Cardinality(please) <= 1
           /\ NoticeSpans[last].seg = "chars"
           /\ \A p \in please : \A i \in 1..last :
                 NoticeSpans[i].seg = "Link" => (p < i /\ i < last)
           /\ NoticeSpans[last].chars =
                 (IF text # <<>> /\ text[Len(text)] # "." THEN text \o <<".">> ELSE text)

\* C7 witness: "deprecated a,b:m." has been gone through: the sentence, a link to a, a link
\* to b, then the message "m."
C7_Witness ==
    /\ Started /\ CurrentDoc # None /\ LastDeprecated > 0
    /\ Len(NoticeLinks) = 2
    /\ NoticeLinks[1].chars = <<"a">>
    /\ NoticeLinks[2].chars = <<"b">>
    /\ \E i \in 1..Len(NoticeSpans) : NoticeSpans[i] = PleaseUse
    /\ NoticeSpans[Len(NoticeSpans)].chars = <<"m", ".">>

\* the positions in the Document of the headers of the categories
CategoryHeaderAt ==
    SelectSeq([i \in 1..Len(Document) |-> i],
              LAMBDA i : /\ Document[i].type = "Header"
                         /\ Document[i].level = 2
                         /\ Document[i].inline[1].seg = "chars")

\* the labels of the node headers under the k-th category header
NodeLabelsUnder(k) ==
    LET from == CategoryHeaderAt[k]
        to == IF k < Len(CategoryHeaderAt) THEN CategoryHeaderAt[k + 1] ELSE Len(Document) + 1
        at == SelectSeq([i \in 1..Len(Document) |-> i],
                        LAMBDA i : /\ from < i /\ i < to
                                   /\ Document[i].type = "Header"
                                   /\ Document[i].level = 3)
    IN [i \in 1..Len(at) |-> Document[at[i]].inline[1].chars]

\* how often a label occurs in a sequence of labels
Occurrences(labs, l) == Cardinality({i \in 1..Len(labs) : labs[i] = l})

\* C8 as stated: when run() has ended, the categories have their headers in the declared
\* order, and under each the headers of its active and deprecated nodes, each node once,
\* in non-decreasing order of label.
C8_NodesSortedByLabel ==
    pc \in {"done", "aborted"} =>
        /\ Len(CategoryHeaderAt) = Len(get_all_categories)
        /\ \A k \in 1..Len(CategoryHeaderAt) :
              k <= Len(get_all_categories) =>
              LET c == get_all_categories[k]
                  declared == [i \in 1..Len(c.nodes \o c.deprecated_nodes) |->
                                  (c.nodes \o c.deprecated_nodes)[i].label]
                  labs == NodeLabelsUnder(k)
              IN /\ Document[CategoryHeaderAt[k]].inline[1].chars = c.name
                 /\ Len(labs) = Len(declared)
                 /\ \A l \in Labels : Occurrences(labs, l) = Occurrences(declared, l)
                 /\ \A i, j \in 1..Len(labs) : i < j => StrLeq(labs[i], labs[j])

====
